---- MODULE Spec2Model ----
(***************************************************************************)
(* Model of the multipart-upload writers of aws-multipart-upload:          *)
(*   PartBuffer      (src/src/write/part_buffer.rs)                        *)
(*   UploadImpl      (src/src/write/upload.rs)                             *)
(*   Upload          (src/src/write/upload.rs)                             *)
(*   EncodedUpload   (src/src/write/encoded.rs)                            *)
(* driven through the MultipartWrite poll protocol, against a transport    *)
(* whose request futures resolve (ok or error) at arbitrary times.         *)
(*                                                                         *)
(* Driver protocol (the only assumptions made on the caller):              *)
(*   - start_send is called only right after poll_ready returned Ready(Ok);*)
(*   - a poll_complete that returned Pending is polled again until it is   *)
(*     Ready before any other operation is called;                         *)
(*   - nothing is called on a writer whose is_terminated() is true, nor    *)
(*     after a panic.                                                      *)
(* An Err returned by an operation does not stop the driver: the writers   *)
(* keep no failed state, so every operation stays callable.                *)
(***************************************************************************)
EXTENDS Integers, Sequences, FiniteSets, TLC

\* ---- bounds of the model ------------------------------------------------
MaxUris == 2        \* longest URI iterator
MaxParts == 3       \* UploadPart requests dispatched in one run
MaxCap == 2         \* largest max_tasks; 0 is a legal value of the builder
MaxBody == 1        \* largest PartBody handed to Upload::start_send
MaxItems == 3       \* items sent to the encoded writer in one run
MaxItemBytes == 2   \* largest encoded item
MaxId == 2          \* UploadIds of the requests handed to SdkClient directly
MaxKey == 2         \* object keys of those requests
MaxStarts == 2      \* calls of MultipartUploader::start_new_upload in one run

\* ---- configuration of the encoded writer (scaled byte units) -------------
max_part_bytes == 2
max_bytes == 2
MaxPrefixLen == 4   \* longest string handed to KeyPrefix::new

\* lib.rs: AWS_MIN_PART_SIZE, in the model's unit of bytes. The writer is built
\* with part_size at its floor: max_part_bytes = AWS_MIN_PART_SIZE.
AWS_MIN_PART_SIZE == max_part_bytes

\* lib.rs: AWS_MAX_PART_SIZE is ByteSize::gib(5), AWS_MIN_PART_SIZE is
\* ByteSize::mib(5), DEFAULT_MAX_PART_SIZE is ByteSize::mib(10)
AWS_MAX_PART_SIZE == 1024 * AWS_MIN_PART_SIZE
DEFAULT_MAX_PART_SIZE == 2 * AWS_MIN_PART_SIZE

VARIABLES
    \* Upload
    fut,          \* Option<SendCreateUpload>
    next_uri,     \* Option<ObjectUri>, 0 is None
    iter,         \* ObjectUriIter: yields the URIs iter.next .. iter.end
    \* UploadImpl
    cfut,         \* UploadImpl.fut: Option<SendCompleteUpload>
    data,         \* Option<UploadData>
    completed,    \* UploadImpl.completed: CompletedParts
    part,         \* UploadImpl.part: PartNumber
    \* PartBuffer
    pending,      \* FuturesUnordered<SendUploadPart>, in push order
    readyq,       \* resolved futures of pending, in the order poll_next yields them
    bcompleted,   \* PartBuffer.completed
    capacity,     \* Option<NonZeroUsize>, 0 is None
    \* EncodedUpload
    encoder,      \* the PartEncoder being written to
    state,        \* UploadState
    empty,        \* EncodedUpload.empty
    status,       \* the Status returned by the last EncodedUpload::start_send
    items,        \* sizes of the items encoded by start_send, in order
    bodies,       \* the PartBodys handed to uploader.start_send, in order
    \* transport
    nextId,       \* next UploadId the backend assigns
    nfut,         \* serial number of the next SendUploadPart future
    netag,        \* next EntityTag the backend assigns to a part
    createReqs,   \* URIs of the CreateUpload requests issued, in order
    sentParts,    \* UploadPart requests dispatched, in order
    completeReqs, \* CompleteUpload requests issued, in order
    abortReqs,    \* AbortUpload requests issued, in order
    completeDone, \* CompleteUpload requests that have resolved: [id, ok]
    createDone,   \* CreateUpload requests that have resolved: [uri, ok]
    \* driver
    ready,        \* the last operation was poll_ready returning Ready(Ok)
    completing,   \* the last operation was poll_complete returning Pending
    panicked,     \* an expect() failed
    last,         \* operation last called and what it returned
    \* a request handed to SdkClient directly
    sreq,         \* the request
    sres,         \* what SdkClient answered
    \* MultipartUploader (upload/mod.rs)
    up,           \* the uploader: its MultipartUpload<PartBuf> and upload_state
    uhist,        \* its start_new_upload calls, CreateUpload requests, last result
    \* values under construction
    ub,           \* an UploadBuilder: the target it is compiled for, the limit
                  \* handed to part_size, its max_part_bytes
    kp            \* a KeyPrefix: the strings it is made of and its value

wvars == <<fut, next_uri, iter, cfut, data, completed, part,
           pending, readyq, bcompleted, capacity,
           nfut, createReqs, sentParts, completeReqs, abortReqs>>
evars == <<encoder, state, empty, status, items, bodies>>
dvars == <<ready, completing, panicked, last>>
svars == <<sreq, sres>>
uvars == <<up, uhist>>
pvars == <<ub, kp>>
vars == <<wvars, evars, dvars, nextId, netag, completeDone, createDone, svars, uvars, pvars>>

\* ---- values -------------------------------------------------------------
\* error.rs: the FailedUpload of an error, if any (Error::failed_upload)
NoFailed == [some |-> FALSE, id |-> 0, uri |-> 0, part |-> 0]
NoErr == [some |-> FALSE, kind |-> "none", failed |-> NoFailed]
NoFut == [some |-> FALSE, uri |-> 0, st |-> "none", id |-> 0, err |-> NoErr]
NoData == [some |-> FALSE, id |-> 0, uri |-> 0]
NoCFut == [some |-> FALSE, id |-> 0, uri |-> 0, parts |-> <<>>, st |-> "none",
           err |-> NoErr]
Ret(tag, err) == [tag |-> tag, err |-> err]
Res(s, tag, err) == [s |-> s, ret |-> Ret(tag, err)]

\* The writer and the requests it has issued, as one record the operations
\* map to the next.
St ==
    [fut |-> fut, next_uri |-> next_uri, iter |-> iter, cfut |-> cfut,
     data |-> data, completed |-> completed, part |-> part,
     pending |-> pending, readyq |-> readyq, bcompleted |-> bcompleted,
     capacity |-> capacity, nfut |-> nfut, createReqs |-> createReqs,
     sentParts |-> sentParts, completeReqs |-> completeReqs,
     abortReqs |-> abortReqs, panicked |-> panicked]

Install(s) ==
    /\ fut' = s.fut
    /\ next_uri' = s.next_uri
    /\ iter' = s.iter
    /\ cfut' = s.cfut
    /\ data' = s.data
    /\ completed' = s.completed
    /\ part' = s.part
    /\ pending' = s.pending
    /\ readyq' = s.readyq
    /\ bcompleted' = s.bcompleted
    /\ capacity' = s.capacity
    /\ nfut' = s.nfut
    /\ createReqs' = s.createReqs
    /\ sentParts' = s.sentParts
    /\ completeReqs' = s.completeReqs
    /\ abortReqs' = s.abortReqs
    /\ panicked' = s.panicked

\* ---- client/part.rs -----------------------------------------------------
\* PartNumber::default
PartNumberDefault == 1

\* PartNumber::increment: the new counter and the previous number returned
PartNumberIncrement(p) == [part |-> p + 1, ret |-> (p + 1) - 1]

\* CompletedPart::new
CompletedPart(id, etag, pt, size) == [id |-> id, etag |-> etag, part |-> pt, size |-> size]

RECURSIVE InsertByKey(_, _)
InsertByKey(x, s) ==
    IF s = <<>> THEN <<x>>
    ELSE IF x.part < Head(s).part THEN <<x>> \o s
    ELSE <<Head(s)>> \o InsertByKey(x, Tail(s))

\* CompletedParts::sort_ascending: a stable sort by part number
RECURSIVE sort_ascending(_)
sort_ascending(s) ==
    IF s = <<>> THEN <<>>
    ELSE InsertByKey(s[Len(s)], sort_ascending(SubSeq(s, 1, Len(s) - 1)))

\* CompletedParts::extend
CompletedPartsExtendUnsorted(self, other) == self \o other
CompletedPartsExtend(self, other) == sort_ascending(self \o other)

\* CompletedParts::max_part_number
max_part_number(parts) ==
    IF parts = <<>> THEN PartNumberDefault
    ELSE CHOOSE m \in {parts[i].part : i \in 1..Len(parts)} :
             \A i \in 1..Len(parts) : parts[i].part <= m

\* ---- error.rs -----------------------------------------------------------
\* FailedUpload::new
FailedUploadNew(id, uri, pt) == [some |-> TRUE, id |-> id, uri |-> uri, part |-> pt]

\* ErrorRepr::Missing (ErrorKind::Config) and ErrorRepr::Sdk (ErrorKind::Sdk):
\* errors without a FailedUpload
MissingError == [some |-> TRUE, kind |-> "config", failed |-> NoFailed]
SdkError == [some |-> TRUE, kind |-> "sdk", failed |-> NoFailed]

\* UploadContext::upload_ctx on an Err: ErrorRepr::UploadFailed (ErrorKind::Upload)
upload_ctx(id, uri, pt) ==
    [some |-> TRUE, kind |-> "upload", failed |-> FailedUploadNew(id, uri, pt)]

\* Error::failed_upload
failed_upload(e) == e.failed

\* ---- client/sdk.rs, client/request: the requests of SdkClient -----------
\* An UploadId and the bucket and key of an ObjectUri are strings: 0 is the
\* empty string.
ObjectUri(bucket, key) == [bucket |-> bucket, key |-> key]
ObjectUri_is_empty_Both(u) == u.bucket = 0 /\ u.key = 0
ObjectUri_is_empty(u) == u.bucket = 0 \/ u.key = 0
UploadId_is_empty(id) == id = 0

\* the ObjectUri the k-th URI of the iterator stands for
UriOf(k) == ObjectUri(1, k)

CreateRequest_validate(req) == ~ObjectUri_is_empty(req.uri)
UploadPartRequest_validate(req) ==
    ~(UploadId_is_empty(req.id) \/ ObjectUri_is_empty(req.uri))
CompleteRequest_validate(req) ==
    ~(UploadId_is_empty(req.id) \/ ObjectUri_is_empty(req.uri))

\* What the SDK call does: "ok", "send_err" (request.send() failed) or
\* "missing" (the response lacks the upload id / the ETag).
SdkOutcomes == {"ok", "send_err", "missing"}

\* Each returns whether the transport was called (sent) and the error, if any.
send_create_upload_request(req, out) ==
    IF ~CreateRequest_validate(req)
    THEN [sent |-> FALSE, err |-> MissingError]
    ELSE [sent |-> TRUE,
          err |-> IF out = "ok" THEN NoErr
                  ELSE IF out = "send_err" THEN SdkError ELSE MissingError]

send_new_part_upload_request_NoCtx(req, out) ==
    IF ~UploadPartRequest_validate(req)
    THEN [sent |-> FALSE, err |-> MissingError]
    ELSE [sent |-> TRUE, err |-> IF out = "ok" THEN NoErr ELSE SdkError]

send_new_part_upload_request(req, out) ==
    IF ~UploadPartRequest_validate(req)
    THEN [sent |-> FALSE, err |-> MissingError]
    ELSE [sent |-> TRUE,
          err |-> IF out = "ok" THEN NoErr
                  ELSE upload_ctx(req.id, req.uri, req.part)]

send_complete_upload_request(req, out) ==
    IF ~CompleteRequest_validate(req)
    THEN [sent |-> FALSE, err |-> MissingError]
    ELSE [sent |-> TRUE,
          err |-> IF out = "ok" THEN NoErr
                  ELSE upload_ctx(req.id, req.uri, max_part_number(req.parts))]

\* ---- uri.rs -------------------------------------------------------------
\* Iterator::next on the URI iterator: 0 is None
IterNextPastEnd(it) ==
    IF it.next <= it.end + 1
    THEN [iter |-> [it EXCEPT !.next = @ + 1], uri |-> it.next]
    ELSE [iter |-> it, uri |-> 0]

IterNext(it) ==
    IF it.next <= it.end
    THEN [iter |-> [it EXCEPT !.next = @ + 1], uri |-> it.next]
    ELSE [iter |-> it, uri |-> 0]

SendCreateUploadEager(s, uri) ==
    [s EXCEPT !.fut = [some |-> TRUE, uri |-> uri, st |-> "inflight", id |-> 0,
                         err |-> NoErr],
              !.createReqs = Append(@, uri)]
\* SendCreateUpload::new(client, CreateRequest::new(uri)): the future is
\* built, the request is sent when the future is first polled
SendCreateUpload(s, uri) ==
    [s EXCEPT !.fut = [some |-> TRUE, uri |-> uri, st |-> "new", id |-> 0,
                         err |-> NoErr]]

\* the first poll of a SendCreateUpload sends the CreateUpload request
IssueCreate(s) ==
    IF s.fut.some /\ s.fut.st = "new"
    THEN [s EXCEPT !.fut.st = "inflight", !.createReqs = Append(@, s.fut.uri)]
    ELSE s

\* ObjectUriIter::next_upload
next_upload(s) ==
    LET n == IterNext(s.iter)
    IN IF n.uri = 0 THEN [s EXCEPT !.iter = n.iter]
       ELSE SendCreateUpload([s EXCEPT !.iter = n.iter], n.uri)

\* ---- write/part_buffer.rs -----------------------------------------------
PendingOf(s, fid) == CHOOSE f \in {s.pending[i] : i \in 1..Len(s.pending)} : f.fid = fid

\* The loop over pending.poll_next shared by poll_ready and poll_flush: the
\* resolved futures leave the pool in the order they resolved, the successful
\* ones into completed, until one carries an error.
RECURSIVE PollNextLoop(_)
PollNextLoop(s) ==
    IF s.readyq = <<>> THEN [s |-> s, err |-> NoErr]
    ELSE LET f == PendingOf(s, Head(s.readyq))
             rest == [s EXCEPT !.pending = SelectSeq(@, LAMBDA g : g.fid # f.fid),
                               !.readyq = Tail(@)]
         IN IF f.st = "ok"
            THEN PollNextLoop([rest EXCEPT !.bcompleted =
                                  Append(@, CompletedPart(f.id, f.etag, f.part, f.size))])
            ELSE [s |-> rest, err |-> f.err]

\* PartBuffer::new: capacity.and_then(NonZeroUsize::new)
PartBufferNew(cap) == cap

HasCapacityOffByOne(cap, len) == cap = 0 \/ len <= cap
\* capacity.is_none_or(|n| pending.len() < n.get())
HasCapacityZeroIsLimit(cap, len) == len < cap
HasCapacity(cap, len) == cap = 0 \/ len < cap

\* poll_ready once the poll_next loop r has ended
PollReadyAfterLoopAlwaysReady(r) ==
    IF r.err.some THEN Res(r.s, "Err", r.err) ELSE Res(r.s, "Ok", NoErr)

PollReadyAfterLoop(r) ==
    IF r.err.some THEN Res(r.s, "Err", r.err)
    ELSE IF HasCapacity(r.s.capacity, Len(r.s.pending))
         THEN Res(r.s, "Ok", NoErr)
         ELSE Res(r.s, "Pending", NoErr)

PartBuffer_poll_ready_NoDrain(s) == PollReadyAfterLoop([s |-> s, err |-> NoErr])
PartBuffer_poll_ready(s) == PollReadyAfterLoop(PollNextLoop(s))

PartBuffer_start_send(s, f) == [s EXCEPT !.pending = Append(@, f)]

\* poll_flush once the poll_next loop r has ended
PollFlushAfterLoop(r) ==
    IF r.err.some THEN Res(r.s, "Err", r.err)
    ELSE IF r.s.pending # <<>> THEN Res(r.s, "Pending", NoErr)
         ELSE Res(r.s, "Ok", NoErr)

PollFlushAfterLoopNoWait(r) ==
    IF r.err.some THEN Res(r.s, "Err", r.err) ELSE Res(r.s, "Ok", NoErr)

PartBuffer_poll_flush_NoWait(s) == PollFlushAfterLoopNoWait(PollNextLoop(s))

PartBuffer_poll_flush(s) == PollFlushAfterLoop(PollNextLoop(s))

\* poll_complete once poll_flush has returned r: the parts taken are in out
TakeCompletedKeep(r) == [s |-> r.s, ret |-> r.ret, out |-> r.s.bcompleted]

TakeCompleted(r) ==
    IF r.ret.tag # "Ok" THEN [s |-> r.s, ret |-> r.ret, out |-> <<>>]
    ELSE [s |-> [r.s EXCEPT !.bcompleted = <<>>], ret |-> r.ret,
          out |-> r.s.bcompleted]

PartBuffer_poll_complete(s) == TakeCompleted(PartBuffer_poll_flush(s))

\* ---- write/upload.rs: UploadImpl ----------------------------------------
UploadImpl_is_terminated(s) == ~s.data.some

set_upload_data(s, d) == [s EXCEPT !.data = d]

UploadImpl_poll_ready(s) == PartBuffer_poll_ready(s)

\* UploadPartRequest::new and SendUploadPart::new, pushed to the buffer
DispatchPart(s, inc, bytes) ==
    PartBuffer_start_send(
        [s EXCEPT !.part = inc.part, !.nfut = @ + 1,
                  !.sentParts = Append(@, [id |-> s.data.id, uri |-> s.data.uri,
                                           part |-> inc.ret, size |-> bytes])],
        [fid |-> s.nfut, id |-> s.data.id, uri |-> s.data.uri, part |-> inc.ret,
         size |-> bytes, st |-> "inflight", etag |-> 0, err |-> NoErr])

\* UploadSent::new
UploadSent(d, pt, bytes) == [id |-> d.id, uri |-> d.uri, part |-> pt, bytes |-> bytes]

\* returns the UploadSent in field sent
UploadImpl_start_send(s, bytes) ==
    IF ~s.data.some
    THEN [s |-> [s EXCEPT !.panicked = TRUE], ret |-> Ret("Panic", NoErr),
          sent |-> UploadSent(NoData, 0, 0)]
    ELSE [s |-> DispatchPart(s, PartNumberIncrement(s.part), bytes),
          ret |-> Ret("Ok", NoErr),
          sent |-> UploadSent(s.data, PartNumberIncrement(s.part).ret, bytes)]

\* poll_flush once buf.poll_complete has returned r
ExtendCompleted(r) ==
    IF r.ret.tag # "Ok" THEN Res(r.s, r.ret.tag, r.ret.err)
    ELSE Res([r.s EXCEPT !.completed = CompletedPartsExtend(@, r.out)], "Ok", NoErr)

UploadImpl_poll_flush(s) == ExtendCompleted(PartBuffer_poll_complete(s))

PollCompleteFutRetry(s) ==
    IF s.cfut.st = "inflight" THEN Res(s, "Pending", NoErr)
    ELSE IF s.cfut.st = "err"
    THEN Res([s EXCEPT !.cfut.st = "inflight",
                       !.completeReqs = Append(@, [id |-> s.cfut.id,
                                                   uri |-> s.cfut.uri,
                                                   parts |-> s.cfut.parts])],
             "Pending", NoErr)
    ELSE Res([s EXCEPT !.cfut = NoCFut, !.data = NoData, !.part = PartNumberDefault],
             "Ok", s.cfut.err)
\* the second half of poll_complete: poll the SendCompleteUpload future
PollCompleteFut(s) ==
    IF s.cfut.st = "inflight" THEN Res(s, "Pending", NoErr)
    ELSE Res([s EXCEPT !.cfut = NoCFut, !.data = NoData, !.part = PartNumberDefault],
             IF s.cfut.st = "ok" THEN "Ok" ELSE "Err",
             s.cfut.err)

\* CompleteRequest::new(data, take(completed)) and SendCompleteUpload::new
SendCompleteUpload(s, parts) ==
    [s EXCEPT !.completed = <<>>,
              !.cfut = [some |-> TRUE, id |-> s.data.id, uri |-> s.data.uri,
                        parts |-> parts, st |-> "inflight", err |-> NoErr],
              !.completeReqs = Append(@, [id |-> s.data.id, uri |-> s.data.uri,
                                          parts |-> parts])]

\* the first half of poll_complete once buf.poll_complete has returned r
CompleteAfterFlush(r) ==
    IF r.ret.tag # "Ok" THEN Res(r.s, r.ret.tag, r.ret.err)
    ELSE PollCompleteFut(
             SendCompleteUpload(r.s, CompletedPartsExtend(r.s.completed, r.out)))

UploadImpl_poll_complete_Reissue(s) ==
    IF ~s.data.some
    THEN Res([s EXCEPT !.panicked = TRUE], "Panic", NoErr)
    ELSE CompleteAfterFlush(PartBuffer_poll_complete(s))

UploadImpl_poll_complete(s) ==
    IF s.cfut.some THEN PollCompleteFut(s)
    ELSE IF ~s.data.some
         THEN Res([s EXCEPT !.panicked = TRUE], "Panic", NoErr)
         ELSE CompleteAfterFlush(PartBuffer_poll_complete(s))

\* ---- write/upload.rs: Upload --------------------------------------------
\* Upload::new, over PartBuffer::new(cap) and an iterator of n URIs
UploadNew(cap, n) ==
    next_upload(
        [fut |-> NoFut, next_uri |-> 0, iter |-> [next |-> 1, end |-> n],
         cfut |-> NoCFut, data |-> NoData, completed |-> <<>>,
         part |-> PartNumberDefault, pending |-> <<>>, readyq |-> <<>>,
         bcompleted |-> <<>>, capacity |-> PartBufferNew(cap), nfut |-> 1,
         createReqs |-> <<>>, sentParts |-> <<>>, completeReqs |-> <<>>,
         abortReqs |-> <<>>, panicked |-> FALSE])

\* next_uri.take()
TakeNextUriKeep(s) == s
TakeNextUri(s) == [s EXCEPT !.next_uri = 0]

\* the second half of poll_new_upload: poll the SendCreateUpload future
PollCreateFutInstallOnErr(s) ==
    IF ~s.fut.some THEN Res(s, "Ok", NoErr)
    ELSE IF s.fut.st = "inflight" THEN Res(s, "Pending", NoErr)
    ELSE Res(set_upload_data([s EXCEPT !.fut = NoFut],
                             [some |-> TRUE, id |-> s.fut.id, uri |-> s.fut.uri]),
             IF s.fut.st = "ok" THEN "Ok" ELSE "Err", s.fut.err)

PollCreateFut(s) ==
    IF ~s.fut.some THEN Res(s, "Ok", NoErr)
    ELSE IF s.fut.st = "inflight" THEN Res(s, "Pending", NoErr)
    ELSE IF s.fut.st = "ok"
         THEN Res(set_upload_data([s EXCEPT !.fut = NoFut],
                                  [some |-> TRUE, id |-> s.fut.id, uri |-> s.fut.uri]),
                  "Ok", NoErr)
         ELSE Res([s EXCEPT !.fut = NoFut], "Err", s.fut.err)

poll_new_upload(s) ==
    PollCreateFut(IssueCreate(IF s.next_uri # 0
                              THEN SendCreateUpload(TakeNextUri(s), s.next_uri)
                              ELSE s))

Upload_is_terminated(s) ==
    UploadImpl_is_terminated(s) /\ ~s.fut.some /\ s.next_uri = 0

\* poll_ready once poll_new_upload has returned r
ReadyAfterNewUpload(r) ==
    IF r.ret.tag # "Ok" THEN r ELSE UploadImpl_poll_ready(r.s)

Upload_poll_ready(s) == ReadyAfterNewUpload(poll_new_upload(s))

Upload_start_send(s, bytes) == UploadImpl_start_send(s, bytes)

Upload_poll_flush(s) == UploadImpl_poll_flush(s)

\* poll_complete once inner.poll_complete has returned r
NextUriAfterComplete(r) ==
    IF r.ret.tag \in {"Pending", "Panic"} THEN r
    ELSE [r EXCEPT !.s = [r.s EXCEPT !.next_uri = IterNext(r.s.iter).uri,
                                     !.iter = IterNext(r.s.iter).iter]]

Upload_poll_complete(s) == NextUriAfterComplete(UploadImpl_poll_complete(s))

\* ---- codec/mod.rs: the PartBody encoder --------------------------------
\* PartEncoder::build: an empty encoder for a new upload
EncoderBuild == [size |-> 0, items |-> 0, kind |-> "build", content |-> <<>>]

\* PartEncoder::reset: an empty encoder for a new part
EncoderReset == [size |-> 0, items |-> 0, kind |-> "reset", content |-> <<>>]

\* PartEncoder::encode: appends the item, returns the bytes written
EncoderEncode(e, bytes) ==
    [e EXCEPT !.size = @ + bytes, !.items = @ + 1, !.content = Append(@, bytes)]

\* PartEncoder::into_body: the size of the PartBody
EncoderIntoBody(e) == e.size

\* what the PartBody of into_body holds: the items encoded, by the encoder of
\* which kind
BodyOf(e) == [kind |-> e.kind, content |-> e.content]

\* ---- write/encoded.rs ---------------------------------------------------
UploadStateDefault ==
    [id |-> 0, part |-> 0, part_bytes |-> 0, total_bytes |-> 0,
     total_items |-> 0, total_parts |-> 0]

NoStatus ==
    [some |-> FALSE, id |-> 0, part |-> 0, items |-> 0, parts |-> 0, bytes |-> 0,
     should_complete |-> FALSE, part_bytes |-> 0, should_upload |-> FALSE]

to_status(st, maxb, maxpb) ==
    [some |-> TRUE, id |-> st.id, part |-> st.part, items |-> st.total_items,
     bytes |-> st.total_bytes, should_complete |-> st.total_bytes >= maxb,
     parts |-> st.total_parts, part_bytes |-> st.part_bytes,
     should_upload |-> st.part_bytes >= maxpb]

update_encode(st, bytes) ==
    [st EXCEPT !.part_bytes = @ + bytes, !.total_items = @ + 1]

update_sent(st, sent) ==
    [st EXCEPT !.id = sent.id, !.part = sent.part, !.part_bytes = 0,
               !.total_bytes = @ + sent.bytes, !.total_parts = @ + 1]

\* The encoded writer: the Upload it wraps (field s) and its own fields.
ESt ==
    [s |-> St, encoder |-> encoder, state |-> state, empty |-> empty,
     items |-> items, bodies |-> bodies]

EInstall(es) ==
    /\ Install(es.s)
    /\ encoder' = es.encoder
    /\ state' = es.state
    /\ empty' = es.empty
    /\ items' = es.items
    /\ bodies' = es.bodies

ERes(es, ret) == [es |-> es, ret |-> ret]

\* poll_send_body once uploader.start_send has returned ss
BodySent(es, ss) ==
    IF ss.ret.tag # "Ok"
    THEN ERes([es EXCEPT !.s = ss.s, !.encoder = EncoderReset], ss.ret)
    ELSE ERes([es EXCEPT !.s = ss.s, !.encoder = EncoderReset,
                         !.state = update_sent(@, ss.sent), !.empty = TRUE,
                         !.bodies = Append(@, BodyOf(es.encoder))],
              Ret("Ok", NoErr))

\* poll_send_body once uploader.poll_ready has returned r
SendBodyWhenReady(es, r) ==
    IF r.ret.tag # "Ok" THEN ERes([es EXCEPT !.s = r.s], r.ret)
    ELSE BodySent(es, Upload_start_send(r.s, EncoderIntoBody(es.encoder)))

poll_send_body(es) == SendBodyWhenReady(es, Upload_poll_ready(es.s))

EncodedUpload_is_terminated(es) == Upload_is_terminated(es.s)

EncodedUpload_poll_ready_NoSend(es) == ERes(es, Ret("Ok", NoErr))
EncodedUpload_poll_ready(es) ==
    IF es.state.part_bytes >= max_part_bytes
    THEN poll_send_body(es)
    ELSE ERes(es, Ret("Ok", NoErr))

\* returns the Status in field status
EncodedUpload_start_send(es, bytes) ==
    [es |-> [es EXCEPT !.encoder = EncoderEncode(@, bytes),
                       !.state = update_encode(@, bytes), !.empty = FALSE,
                       !.items = Append(@, bytes)],
     ret |-> Ret("Ok", NoErr),
     status |-> to_status(update_encode(es.state, bytes), max_bytes, max_part_bytes)]

\* if !self.empty { ready!(self.poll_send_body(cx))? }
SendBodyUnlessEmptyAlways(es) == poll_send_body(es)
SendBodyUnlessEmptySkip(es) == ERes(es, Ret("Ok", NoErr))
SendBodyUnlessEmpty(es) ==
    IF ~es.empty THEN poll_send_body(es) ELSE ERes(es, Ret("Ok", NoErr))

\* uploader.poll_flush has returned f
Flushed(es, f) == ERes([es EXCEPT !.s = f.s], f.ret)

FlushAfterBody(r) ==
    IF r.ret.tag # "Ok" THEN r ELSE Flushed(r.es, Upload_poll_flush(r.es.s))

EncodedUpload_poll_flush(es) == FlushAfterBody(SendBodyUnlessEmpty(es))

\* uploader.poll_complete has returned c
Completed(es, c) ==
    IF c.ret.tag # "Ok" THEN ERes([es EXCEPT !.s = c.s], c.ret)
    ELSE ERes([es EXCEPT !.s = c.s, !.encoder = EncoderBuild], c.ret)

CompleteAfterBody(r) ==
    IF r.ret.tag # "Ok" THEN r ELSE Completed(r.es, Upload_poll_complete(r.es.s))

EncodedUpload_poll_complete(es) == CompleteAfterBody(SendBodyUnlessEmpty(es))

\* ---- lib.rs: UploadBuilder::part_size -----------------------------------
\* the targets the crate is compiled for, by the width of usize
TargetBits == {32, 64}

\* the largest ByteSize (u64::MAX), in the model's unit of bytes
ByteSizeMax == AWS_MAX_PART_SIZE + AWS_MIN_PART_SIZE

\* usize::MAX as u64: 2^32 - 1 bytes are 4 GiB of the 5 GiB of
\* AWS_MAX_PART_SIZE, 2^64 - 1 bytes are u64::MAX
usize_MAX(bits) ==
    IF bits = 32 THEN (4 * AWS_MAX_PART_SIZE) \div 5 ELSE ByteSizeMax

\* Ord::max and Ord::min of ByteSize
OrdMax(a, b) == IF a >= b THEN a ELSE b
OrdMin(a, b) == IF a <= b THEN a ELSE b

part_size_NoFloor(b, limit) ==
    [b EXCEPT !.max_part_bytes =
                  OrdMin(OrdMin(limit, AWS_MAX_PART_SIZE), usize_MAX(b.bits)),
              !.limit = limit, !.called = TRUE]
\* UploadBuilder::part_size
part_size(b, limit) ==
    [b EXCEPT !.max_part_bytes =
                  OrdMin(OrdMin(OrdMax(limit, AWS_MIN_PART_SIZE), AWS_MAX_PART_SIZE),
                         usize_MAX(b.bits)),
              !.limit = limit, !.called = TRUE]

\* ---- uri.rs: KeyPrefix ---------------------------------------------------
\* strings are sequences of characters; "a" stands for every character but '/'
Chars == {"/", "a"}

\* str::trim_start_matches and str::trim_end_matches
RECURSIVE trim_start_matches(_, _)
trim_start_matches(str, c) ==
    IF str # <<>> /\ Head(str) = c THEN trim_start_matches(Tail(str), c) ELSE str

RECURSIVE trim_end_matches(_, _)
trim_end_matches(str, c) ==
    IF str # <<>> /\ str[Len(str)] = c
    THEN trim_end_matches(SubSeq(str, 1, Len(str) - 1), c)
    ELSE str

\* str::trim_matches
trim_matches(str, c) == trim_end_matches(trim_start_matches(str, c), c)

\* KeyPrefix::new: format!("{trimmed}/")
KeyPrefix_new(prefix) == trim_matches(prefix, "/") \o <<"/">>

\* KeyPrefix::append: format!("{self}{other}").into(), From<String> being
\* KeyPrefix::new
KeyPrefix_append(self, other) == KeyPrefix_new(self \o other)

\* ---- upload/mod.rs, upload/multipart_upload.rs, upload/part_buf.rs -------
\* MultipartUploader: the uploader whose uploads are started explicitly with
\* start_new_upload, over MultipartUpload<PartBuf>.
UploadStillActive == [some |-> TRUE, kind |-> "upload_still_active", failed |-> NoFailed]

\* upload/state.rs: UploadState
UploaderStateDefault == [total_bytes |-> 0, total_parts |-> 0, last_part_bytes |-> 0]
UploaderStateUpdate(st, bytes) ==
    [total_bytes |-> st.total_bytes + bytes, total_parts |-> st.total_parts + 1,
     last_part_bytes |-> bytes]

\* MultipartUpload::new_inactive over PartBuf::with_capacity(None)
MultipartUpload_new_inactive ==
    [is_active |-> FALSE, data |-> [id |-> 0, uri |-> ObjectUri(0, 0)],
     completed |-> <<>>, part_number |-> PartNumberDefault,
     state |-> UploaderStateDefault,
     pending |-> <<>>, readyq |-> <<>>, bcompleted |-> <<>>, capacity |-> 0,
     nfut |-> 1]

\* MultipartUploadBuilder::build_uploader
build_uploader ==
    [upload |-> MultipartUpload_new_inactive, upload_state |-> UploaderStateDefault]

NoHistory == [starts |-> <<>>, created |-> <<>>, last |-> Ret("Ok", NoErr)]

MultipartUpload_is_terminated(u) == ~u.is_active

has_active_upload(m) == MultipartUpload_is_terminated(m.upload)

\* MultipartUpload::reactivate
reactivate(u, new) ==
    IF u.is_active THEN [u |-> u, err |-> UploadStillActive]
    ELSE [u |-> [u EXCEPT !.data = new, !.completed = <<>>,
                          !.part_number = PartNumberDefault,
                          !.state = UploaderStateDefault, !.is_active = TRUE],
          err |-> NoErr]

\* start_new_upload once the CreateUpload has answered c
StartAfterCreate(m, c, new) ==
    IF c.err.some THEN [m |-> m, err |-> c.err, created |-> c.sent]
    ELSE [m |-> [m EXCEPT !.upload = reactivate(m.upload, new).u],
          err |-> reactivate(m.upload, new).err, created |-> c.sent]

\* MultipartUploader::start_new_upload; out is what the CreateUpload does and
\* id the UploadId it assigns
start_new_upload(m, uri, out, id) ==
    IF has_active_upload(m)
    THEN [m |-> m, err |-> UploadStillActive, created |-> FALSE]
    ELSE StartAfterCreate(m, send_create_upload_request([uri |-> uri], out),
                          [id |-> id, uri |-> uri])

\* PartBuf::poll_ready and PartBuf::poll_flush
PartBuf_poll_ready(u) == PollReadyAfterLoop(PollNextLoop(u))
PartBuf_poll_flush(u) == PollFlushAfterLoop(PollNextLoop(u))

MultipartUpload_poll_ready(u) == PartBuf_poll_ready(u)

MultipartUpload_start_send(u, bytes) ==
    [u EXCEPT !.pending = Append(@, [fid |-> u.nfut, id |-> u.data.id,
                                     uri |-> u.data.uri, part |-> u.part_number,
                                     size |-> bytes, st |-> "inflight",
                                     etag |-> 0, err |-> NoErr]),
              !.nfut = @ + 1,
              !.state = UploaderStateUpdate(@, bytes),
              !.part_number = @ + 1]

\* poll_flush once buf.poll_flush has returned r: buf.poll_complete takes the
\* completed parts and completed.extend appends them
TakeFlushed(r) ==
    IF r.ret.tag # "Ok" THEN r
    ELSE Res([r.s EXCEPT !.completed = @ \o r.s.bcompleted, !.bcompleted = <<>>],
             "Ok", NoErr)

MultipartUpload_poll_flush(u) == TakeFlushed(PartBuf_poll_flush(u))

\* poll_complete, the CompleteUpload answering c at once
MultipartUpload_poll_complete(u, c) ==
    Res([u EXCEPT !.completed = <<>>, !.is_active = FALSE],
        IF c.err.some THEN "Err" ELSE "Ok", c.err)

\* upload_part once upload.poll_ready has returned r
SendWhenReady(m, r, bytes) ==
    IF r.ret.tag # "Ok" THEN [m |-> [m EXCEPT !.upload = r.s], ret |-> r.ret]
    ELSE [m |-> [m EXCEPT !.upload = MultipartUpload_start_send(r.s, bytes),
                          !.upload_state = UploaderStateUpdate(@, bytes)],
          ret |-> Ret("Ok", NoErr)]

\* MultipartUploader::upload_part
upload_part(m, bytes) ==
    SendWhenReady(m, MultipartUpload_poll_ready(m.upload), bytes)

\* upload.flush() has returned r
FlushedUpload(m, r) == [m |-> [m EXCEPT !.upload = r.s], ret |-> r.ret]

\* MultipartUploader::finish_pending
finish_pending(m) == FlushedUpload(m, MultipartUpload_poll_flush(m.upload))

\* complete_upload once upload.complete() has returned c
CompletedUpload(m, c) ==
    IF c.ret.tag # "Ok" THEN [m |-> [m EXCEPT !.upload = c.s], ret |-> c.ret]
    ELSE [m |-> [m EXCEPT !.upload = c.s, !.upload_state = UploaderStateDefault],
          ret |-> c.ret]

\* complete_upload once upload.flush() has returned r
CompleteWhenFlushed(m, r, out) ==
    IF r.ret.tag # "Ok" THEN FlushedUpload(m, r)
    ELSE CompletedUpload(m,
             MultipartUpload_poll_complete(r.s,
                 send_complete_upload_request(
                     [id |-> r.s.data.id, uri |-> r.s.data.uri,
                      parts |-> r.s.completed], out)))

\* MultipartUploader::complete_upload
complete_upload(m, out) ==
    CompleteWhenFlushed(m, MultipartUpload_poll_flush(m.upload), out)

\* ---- initial state: UploadBuilder::build --------------------------------
NoRequest == [op |-> "none", id |-> 0, uri |-> ObjectUri(0, 0), part |-> 0, parts |-> <<>>]
NoAnswer == [some |-> FALSE, sent |-> FALSE, err |-> NoErr]

InitWriter ==
    /\ \E cap \in 0..MaxCap, n \in 0..MaxUris :
         LET s == UploadNew(cap, n)
         IN /\ fut = s.fut
            /\ next_uri = s.next_uri
            /\ iter = s.iter
            /\ cfut = s.cfut
            /\ data = s.data
            /\ completed = s.completed
            /\ part = s.part
            /\ pending = s.pending
            /\ readyq = s.readyq
            /\ bcompleted = s.bcompleted
            /\ capacity = s.capacity
            /\ nfut = s.nfut
            /\ createReqs = s.createReqs
            /\ sentParts = s.sentParts
            /\ completeReqs = s.completeReqs
            /\ abortReqs = s.abortReqs
            /\ panicked = s.panicked
    /\ encoder = EncoderBuild
    /\ items = <<>>
    /\ bodies = <<>>
    /\ state = UploadStateDefault
    /\ empty = TRUE
    /\ status = NoStatus
    /\ nextId = 1
    /\ netag = 1
    /\ completeDone = {}
    /\ createDone = {}
    /\ ready = FALSE
    /\ completing = FALSE
    /\ last = [op |-> "new", tag |-> "Ok", err |-> NoErr]

InitUploader == up = build_uploader /\ uhist = NoHistory

\* UploadBuilder::new on a 64-bit target, no limit handed to part_size
NoBuilder ==
    [bits |-> 64, limit |-> 0, max_part_bytes |-> DEFAULT_MAX_PART_SIZE,
     called |-> FALSE]

\* KeyPrefix::default
NoPrefix == [raw |-> <<>>, other |-> <<>>, value |-> <<>>, op |-> "default"]

InitValues == ub = NoBuilder /\ kp = NoPrefix

Init ==
    /\ InitWriter /\ sreq = NoRequest /\ sres = NoAnswer /\ InitUploader
    /\ InitValues

\* the caller's view of an operation: what it returned
Called(op, ret) ==
    /\ last' = [op |-> op, tag |-> ret.tag, err |-> ret.err]
    /\ ready' = (op = "poll_ready" /\ ret.tag = "Ok")
    /\ completing' = (op = "poll_complete" /\ ret.tag = "Pending")

\* an operation of Upload returned r
Do(op, r) == Install(r.s) /\ Called(op, r.ret)

\* an operation of EncodedUpload returned r
EDo(op, r) == EInstall(r.es) /\ Called(op, r.ret)

\* ---- the transport: request futures resolve -----------------------------
ResolveCreate(ok) ==
    /\ ~panicked
    /\ fut.some /\ fut.st = "inflight"
    /\ fut' = [fut EXCEPT !.st = IF ok THEN "ok" ELSE "err",
                          !.id = IF ok THEN nextId ELSE 0,
                          !.err = send_create_upload_request(
                                      [uri |-> UriOf(fut.uri)],
                                      IF ok THEN "ok" ELSE "send_err").err]
    /\ nextId' = IF ok THEN nextId + 1 ELSE nextId
    /\ createDone' = createDone \cup {[uri |-> fut.uri, ok |-> ok]}
    /\ UNCHANGED <<next_uri, iter, cfut, data, completed, part, pending, readyq,
                   bcompleted, capacity, nfut, createReqs, sentParts, completeReqs,
                   abortReqs,
                   evars, dvars, netag, completeDone, svars, uvars, pvars>>

ResolvePart(i, ok) ==
    /\ ~panicked
    /\ i \in 1..Len(pending)
    /\ pending[i].st = "inflight"
    /\ pending' = [pending EXCEPT ![i].st = IF ok THEN "ok" ELSE "err",
                                  ![i].etag = IF ok THEN netag ELSE 0,
                                  ![i].err = send_new_part_upload_request(
                                                 [id |-> pending[i].id,
                                                  uri |-> UriOf(pending[i].uri),
                                                  part |-> pending[i].part],
                                                 IF ok THEN "ok" ELSE "send_err").err]
    /\ netag' = IF ok THEN netag + 1 ELSE netag
    /\ readyq' = Append(readyq, pending[i].fid)
    /\ UNCHANGED <<fut, next_uri, iter, cfut, data, completed, part,
                   bcompleted, capacity, nfut, createReqs, sentParts, completeReqs,
                   abortReqs,
                   evars, dvars, nextId, completeDone, createDone, svars, uvars, pvars>>

ResolveComplete(ok) ==
    /\ ~panicked
    /\ cfut.some /\ cfut.st = "inflight"
    /\ cfut' = [cfut EXCEPT !.st = IF ok THEN "ok" ELSE "err",
                            !.err = send_complete_upload_request(
                                        [id |-> cfut.id, uri |-> UriOf(cfut.uri),
                                         parts |-> cfut.parts],
                                        IF ok THEN "ok" ELSE "send_err").err]
    /\ completeDone' = completeDone \cup {[id |-> cfut.id, ok |-> ok]}
    /\ UNCHANGED <<fut, next_uri, iter, data, completed, part, pending, readyq,
                   bcompleted, capacity, nfut, createReqs, sentParts, completeReqs,
                   abortReqs,
                   evars, dvars, nextId, netag, createDone, svars, uvars, pvars>>

\* ---- a driver of Upload<PartBuffer> -------------------------------------
CanCall == ~panicked /\ ~Upload_is_terminated(St)

PollReady ==
    /\ CanCall /\ ~completing
    /\ Do("poll_ready", Upload_poll_ready(St))
    /\ UNCHANGED <<evars, nextId, netag, completeDone, createDone, svars, uvars, pvars>>

StartSend(bytes) ==
    /\ CanCall /\ ready
    /\ Len(sentParts) < MaxParts
    /\ Do("start_send", Upload_start_send(St, bytes))
    /\ UNCHANGED <<evars, nextId, netag, completeDone, createDone, svars, uvars, pvars>>

PollFlush ==
    /\ CanCall /\ ~completing
    /\ Do("poll_flush", Upload_poll_flush(St))
    /\ UNCHANGED <<evars, nextId, netag, completeDone, createDone, svars, uvars, pvars>>

PollComplete ==
    /\ CanCall
    /\ Do("poll_complete", Upload_poll_complete(St))
    /\ UNCHANGED <<evars, nextId, netag, completeDone, createDone, svars, uvars, pvars>>

Next ==
    \/ PollReady
    \/ \E b \in 1..MaxBody : StartSend(b)
    \/ PollFlush
    \/ PollComplete
    \/ \E ok \in BOOLEAN : ResolveCreate(ok)
    \/ \E i \in 1..MaxParts + 1, ok \in BOOLEAN : ResolvePart(i, ok)
    \/ \E ok \in BOOLEAN : ResolveComplete(ok)

Spec == Init /\ [][Next]_vars

\* ---- the caller drops the writer ----------------------------------------
\* Upload, UploadImpl and PartBuffer implement no Drop: their fields are
\* dropped in place, and with them the request futures not yet resolved.
Dropped == last.op = "drop"

DropWriterAborting ==
    /\ ~panicked /\ ~Dropped
    /\ Called("drop", Ret("Ok", NoErr))
    /\ fut' = NoFut /\ cfut' = NoCFut /\ pending' = <<>> /\ readyq' = <<>>
    /\ abortReqs' = IF data.some THEN Append(abortReqs, data.id) ELSE abortReqs
    /\ UNCHANGED <<next_uri, iter, data, completed, part, bcompleted, capacity,
                   nfut, createReqs, sentParts, completeReqs, panicked,
                   evars, nextId, netag, completeDone, createDone, svars, uvars, pvars>>
DropWriter ==
    /\ ~panicked /\ ~Dropped
    /\ Called("drop", Ret("Ok", NoErr))
    /\ fut' = NoFut /\ cfut' = NoCFut /\ pending' = <<>> /\ readyq' = <<>>
    /\ UNCHANGED <<next_uri, iter, data, completed, part, bcompleted, capacity,
                   nfut, createReqs, sentParts, completeReqs, abortReqs, panicked,
                   evars, nextId, netag, completeDone, createDone, svars, uvars, pvars>>

\* nothing is called on a writer that was dropped
NextDrop ==
    \/ ~Dropped /\ PollReady
    \/ \E b \in 1..MaxBody : ~Dropped /\ StartSend(b)
    \/ ~Dropped /\ PollFlush
    \/ ~Dropped /\ PollComplete
    \/ \E ok \in BOOLEAN : ~Dropped /\ ResolveCreate(ok)
    \/ \E i \in 1..MaxParts + 1, ok \in BOOLEAN : ~Dropped /\ ResolvePart(i, ok)
    \/ \E ok \in BOOLEAN : ~Dropped /\ ResolveComplete(ok)
    \/ DropWriter

SpecDrop == Init /\ [][NextDrop]_vars

\* ---- a driver of EncodedUpload<Item, PartBody, Upload<PartBuffer>> ------
EncPollReady ==
    /\ CanCall /\ ~completing
    /\ EDo("poll_ready", EncodedUpload_poll_ready(ESt))
    /\ UNCHANGED <<status, nextId, netag, completeDone, createDone, svars, uvars, pvars>>

EncStartSend(bytes) ==
    /\ CanCall /\ ready
    /\ state.total_items < MaxItems
    /\ EDo("start_send", EncodedUpload_start_send(ESt, bytes))
    /\ status' = EncodedUpload_start_send(ESt, bytes).status
    /\ UNCHANGED <<nextId, netag, completeDone, createDone, svars, uvars, pvars>>

EncPollFlush ==
    /\ CanCall /\ ~completing
    /\ EDo("poll_flush", EncodedUpload_poll_flush(ESt))
    /\ UNCHANGED <<status, nextId, netag, completeDone, createDone, svars, uvars, pvars>>

EncPollComplete ==
    /\ CanCall
    /\ EDo("poll_complete", EncodedUpload_poll_complete(ESt))
    /\ UNCHANGED <<status, nextId, netag, completeDone, createDone, svars, uvars, pvars>>

NextEnc ==
    \/ EncPollReady
    \/ \E b \in 1..MaxItemBytes : EncStartSend(b)
    \/ EncPollFlush
    \/ EncPollComplete
    \/ \E ok \in BOOLEAN : ResolveCreate(ok)
    \/ \E i \in 1..MaxItems + 1, ok \in BOOLEAN : ResolvePart(i, ok)
    \/ \E ok \in BOOLEAN : ResolveComplete(ok)

SpecEnc == Init /\ [][NextEnc]_vars

\* ---- a driver that keeps polling, over a backend that answers ------------
\* A driver that got Pending from poll_flush polls poll_flush again until it
\* is Ready (as it does with poll_complete), and every request resolves
\* successfully.
Flushing == last.op = "poll_flush" /\ last.tag = "Pending"

NextLive ==
    \/ ~Flushing /\ EncPollReady
    \/ \E b \in 1..MaxItemBytes : ~Flushing /\ EncStartSend(b)
    \/ EncPollFlush
    \/ ~Flushing /\ EncPollComplete
    \/ ResolveCreate(TRUE)
    \/ \E i \in 1..MaxItems + 1 : ResolvePart(i, TRUE)
    \/ ResolveComplete(TRUE)

\* poll_flush, polled again, would return something or change something
FlushProgress ==
    /\ Flushing /\ CanCall
    /\ EncodedUpload_poll_flush(ESt) # [es |-> ESt, ret |-> Ret("Pending", NoErr)]

\* poll_complete, polled again, would return something or change something
CompleteProgress ==
    /\ completing /\ CanCall
    /\ EncodedUpload_poll_complete(ESt) # [es |-> ESt, ret |-> Ret("Pending", NoErr)]

\* The driver polls again what returned Pending, and the backend answers.
\* The first two conjuncts are WF_vars(Flushing /\ EncPollFlush) and
\* WF_vars(completing /\ EncPollComplete) with ENABLED written out as the
\* state predicates above.
Fairness ==
    /\ []<>~FlushProgress \/ []<><<Flushing /\ EncPollFlush>>_vars
    /\ []<>~CompleteProgress \/ []<><<completing /\ EncPollComplete>>_vars
    /\ WF_vars(ResolveCreate(TRUE))
    /\ WF_vars(\E i \in 1..MaxItems + 1 : ResolvePart(i, TRUE))
    /\ WF_vars(ResolveComplete(TRUE))

SpecLive == Init /\ [][NextLive]_vars /\ Fairness

\* ---- a driver of Upload<PartBuffer> that does not consult is_terminated ---
\* (MultipartWrite without FusedMultipartWrite: send, flush and complete are
\* callable on any writer)
UncheckedPollReady ==
    /\ ~panicked /\ ~completing
    /\ Do("poll_ready", Upload_poll_ready(St))
    /\ UNCHANGED <<evars, nextId, netag, completeDone, createDone, svars, uvars, pvars>>

UncheckedStartSend(bytes) ==
    /\ ~panicked /\ ready
    /\ Len(sentParts) < MaxParts
    /\ Do("start_send", Upload_start_send(St, bytes))
    /\ UNCHANGED <<evars, nextId, netag, completeDone, createDone, svars, uvars, pvars>>

UncheckedPollFlush ==
    /\ ~panicked /\ ~completing
    /\ Do("poll_flush", Upload_poll_flush(St))
    /\ UNCHANGED <<evars, nextId, netag, completeDone, createDone, svars, uvars, pvars>>

UncheckedPollComplete ==
    /\ ~panicked
    /\ Do("poll_complete", Upload_poll_complete(St))
    /\ UNCHANGED <<evars, nextId, netag, completeDone, createDone, svars, uvars, pvars>>

NextUnchecked ==
    \/ UncheckedPollReady
    \/ \E b \in 1..MaxBody : UncheckedStartSend(b)
    \/ UncheckedPollFlush
    \/ UncheckedPollComplete
    \/ \E ok \in BOOLEAN : ResolveCreate(ok)
    \/ \E i \in 1..MaxParts + 1, ok \in BOOLEAN : ResolvePart(i, ok)
    \/ \E ok \in BOOLEAN : ResolveComplete(ok)

SpecUnchecked == Init /\ [][NextUnchecked]_vars

\* ---- a caller of MultipartUploader --------------------------------------
OtherVars ==
    <<wvars, evars, dvars, nextId, netag, completeDone, createDone, svars, pvars>>

\* start_new_upload returned r
Started(r, uri) ==
    /\ up' = r.m
    /\ uhist' = [starts |-> Append(uhist.starts, [uri |-> uri, err |-> r.err]),
                 created |-> IF r.created THEN Append(uhist.created, uri)
                             ELSE uhist.created,
                 last |-> Ret(IF r.err.some THEN "Err" ELSE "Ok", r.err)]

\* another method of the uploader returned r
Returned(r) == up' = r.m /\ uhist' = [uhist EXCEPT !.last = r.ret]

UStartNewUpload(uri, out) ==
    /\ Len(uhist.starts) < MaxStarts
    /\ Started(start_new_upload(up, uri, out, Len(uhist.created) + 1), uri)
    /\ UNCHANGED OtherVars

UUploadPart(bytes) ==
    /\ up.upload.part_number <= MaxParts
    /\ Returned(upload_part(up, bytes))
    /\ UNCHANGED OtherVars

UResolvePart(i, ok) ==
    /\ i \in 1..Len(up.upload.pending)
    /\ up.upload.pending[i].st = "inflight"
    /\ up' = [up EXCEPT
                 !.upload.pending[i].st = IF ok THEN "ok" ELSE "err",
                 !.upload.pending[i].etag = IF ok THEN up.upload.pending[i].fid ELSE 0,
                 !.upload.pending[i].err =
                     send_new_part_upload_request(
                         [id |-> up.upload.pending[i].id,
                          uri |-> up.upload.pending[i].uri,
                          part |-> up.upload.pending[i].part],
                         IF ok THEN "ok" ELSE "send_err").err,
                 !.upload.readyq = Append(@, up.upload.pending[i].fid)]
    /\ UNCHANGED <<uhist, OtherVars>>

UFinishPending ==
    /\ Returned(finish_pending(up))
    /\ UNCHANGED OtherVars

UCompleteUpload(out) ==
    /\ Returned(complete_upload(up, out))
    /\ UNCHANGED OtherVars

NextUploader ==
    \/ \E k \in 1..MaxKey, out \in SdkOutcomes : UStartNewUpload(ObjectUri(1, k), out)
    \/ \E b \in 1..MaxBody : UUploadPart(b)
    \/ \E i \in 1..MaxParts, ok \in BOOLEAN : UResolvePart(i, ok)
    \/ UFinishPending
    \/ \E out \in SdkOutcomes : UCompleteUpload(out)

SpecUploader == Init /\ [][NextUploader]_vars

\* ---- a caller of UploadBuilder::part_size --------------------------------
PartSizeLimits == 0..ByteSizeMax

InitPartSize ==
    /\ InitWriter
    /\ capacity = 0
    /\ iter.end = 0
    /\ sreq = NoRequest /\ sres = NoAnswer
    /\ InitUploader
    /\ ub \in {[NoBuilder EXCEPT !.bits = w] : w \in TargetBits}
    /\ kp = NoPrefix

PartSize(limit) ==
    /\ ~ub.called
    /\ ub' = part_size(ub, limit)
    /\ UNCHANGED <<wvars, evars, dvars, nextId, netag, completeDone, createDone,
                   svars, uvars, kp>>

NextPartSize == \E limit \in PartSizeLimits : PartSize(limit)

SpecPartSize == InitPartSize /\ [][NextPartSize]_vars

\* ---- a caller of KeyPrefix ------------------------------------------------
Strings == UNION {[1..n -> Chars] : n \in 0..MaxPrefixLen}

PrefixNew(raw) ==
    /\ kp.op = "default"
    /\ kp' = [raw |-> raw, other |-> <<>>, value |-> KeyPrefix_new(raw),
              op |-> "new"]
    /\ UNCHANGED <<wvars, evars, dvars, nextId, netag, completeDone, createDone,
                   svars, uvars, ub>>

PrefixAppend(raw) ==
    /\ kp.op = "new"
    /\ kp' = [kp EXCEPT !.other = raw,
                        !.value = KeyPrefix_append(kp.value, KeyPrefix_new(raw)),
                        !.op = "append"]
    /\ UNCHANGED <<wvars, evars, dvars, nextId, netag, completeDone, createDone,
                   svars, uvars, ub>>

NextKeyPrefix ==
    \/ \E raw \in Strings : PrefixNew(raw)
    \/ \E raw \in Strings : PrefixAppend(raw)

InitKeyPrefix == InitPartSize /\ ub = NoBuilder

SpecKeyPrefix == InitKeyPrefix /\ [][NextKeyPrefix]_vars

\* ---- requests handed to SdkClient directly (the public request API) ------
UriValues == {ObjectUri(b, k) : b \in 0..1, k \in 0..MaxKey}

PartsValues ==
    {<<>>} \cup {<<CompletedPart(1, 1, p, 1)>> : p \in 1..MaxParts}
           \cup {<<CompletedPart(1, 1, p, 1), CompletedPart(1, 2, q, 1)>> :
                     p \in 1..MaxParts, q \in 1..MaxParts}

\* CreateRequest::new, UploadPartRequest::new, CompleteRequest::new
Requests ==
    {[op |-> "create", id |-> 0, uri |-> u, part |-> 0, parts |-> <<>>] :
        u \in UriValues}
    \cup {[op |-> "part", id |-> i, uri |-> u, part |-> p, parts |-> <<>>] :
             i \in 0..MaxId, u \in UriValues, p \in 1..MaxParts}
    \cup {[op |-> "complete", id |-> i, uri |-> u, part |-> 0, parts |-> ps] :
             i \in 0..MaxId, u \in UriValues, ps \in PartsValues}

InitSdk ==
    /\ InitWriter /\ capacity = 0 /\ iter.end = 0
    /\ sreq \in Requests
    /\ sres = NoAnswer
    /\ InitUploader
    /\ InitValues

Answer(r) == [some |-> TRUE, sent |-> r.sent, err |-> r.err]

SdkCreate(out) ==
    /\ sreq.op = "create" /\ ~sres.some
    /\ sres' = Answer(send_create_upload_request(sreq, out))
    /\ UNCHANGED <<wvars, evars, dvars, nextId, netag, completeDone, createDone, sreq, uvars, pvars>>

SdkUploadPart(out) ==
    /\ sreq.op = "part" /\ ~sres.some
    /\ sres' = Answer(send_new_part_upload_request(sreq, out))
    /\ UNCHANGED <<wvars, evars, dvars, nextId, netag, completeDone, createDone, sreq, uvars, pvars>>

SdkComplete(out) ==
    /\ sreq.op = "complete" /\ ~sres.some
    /\ sres' = Answer(send_complete_upload_request(sreq, out))
    /\ UNCHANGED <<wvars, evars, dvars, nextId, netag, completeDone, createDone, sreq, uvars, pvars>>

NextSdk ==
    \/ \E out \in SdkOutcomes : SdkCreate(out)
    \/ \E out \in SdkOutcomes : SdkUploadPart(out)
    \/ \E out \in SdkOutcomes : SdkComplete(out)

SpecSdk == InitSdk /\ [][NextSdk]_vars

\* ======================= properties =======================================
PartsOf(id) == SelectSeq(sentParts, LAMBDA p : p.id = id)

\* C1: the part numbers of the UploadPart requests dispatched for one
\* UploadId are 1, 2, ..., k in dispatch order.
C1_PartNumbersFromOne ==
    \A i \in 1..Len(sentParts) :
        sentParts[i].part =
            1 + Cardinality({j \in 1..(i - 1) : sentParts[j].id = sentParts[i].id})

\* C2: in the step that builds a CompleteUpload request, every UploadPart
\* future dispatched for its UploadId has resolved and has left the pool.
C2_CompleteAfterPartsResolved ==
    [][Len(completeReqs') > Len(completeReqs) =>
          LET id == completeReqs'[Len(completeReqs')].id
          IN /\ \A i \in 1..Len(pending) :
                   pending[i].id = id => pending[i].st # "inflight"
             /\ \A i \in 1..Len(pending') : pending'[i].id # id]_vars

\* C2 witness: a CompleteUpload request was built for an upload that had
\* dispatched two parts.
C2_Witness ==
    /\ completeReqs # <<>>
    /\ Len(PartsOf(completeReqs[1].id)) >= 2

\* C3: the CompletedParts of every CompleteUpload request are strictly
\* ascending by part number.
C3_CompleteSorted ==
    \A r \in 1..Len(completeReqs) :
        \A i \in 1..(Len(completeReqs[r].parts) - 1) :
            completeReqs[r].parts[i].part < completeReqs[r].parts[i + 1].part

\* C3 witness: a CompleteUpload request carries two parts the backend
\* finished in the opposite order (the later part got the earlier etag).
C3_Witness ==
    \E r \in 1..Len(completeReqs) :
        /\ Len(completeReqs[r].parts) >= 2
        /\ completeReqs[r].parts[1].etag > completeReqs[r].parts[2].etag

\* C4 as stated: with max_tasks = N the pool never holds more than N futures.
C4_PoolAtMostMaxTasks == Len(pending) <= capacity

\* C4 amended: with max_tasks = N >= 1 the pool never holds more than N
\* futures (max_tasks = 0 configures a pool without limit).
C4_PoolAtMostNonZeroMaxTasks == capacity >= 1 => Len(pending) <= capacity

\* C4 witness: the pool is full and poll_ready has answered Pending.
C4_Witness ==
    /\ capacity >= 1
    /\ Len(pending) = capacity
    /\ last.op = "poll_ready" /\ last.tag = "Pending" /\ ~fut.some

\* C5: a CreateUpload request for a further object is issued only after the
\* CompleteUpload request of the object before it has resolved.
C5_CreateAfterCompleteResolved ==
    [][(Len(createReqs') > Len(createReqs) /\ createReqs # <<>>) =>
          \E r \in 1..Len(completeReqs) :
              /\ completeReqs[r].uri = createReqs[Len(createReqs)]
              /\ \E d \in completeDone : d.id = completeReqs[r].id]_vars

\* C6: every CompletedPart a CompleteUpload request carries belongs to the
\* UploadId of that request.
C6_CompletedPartsPerUpload ==
    \A r \in 1..Len(completeReqs) :
        \A i \in 1..Len(completeReqs[r].parts) :
            completeReqs[r].parts[i].id = completeReqs[r].id

\* C7: when a CreateUpload installs a new UploadData, the part number is 1
\* and the upload layer's CompletedParts is empty.
C7_InstallResets ==
    [][(data'.some /\ data' # data) =>
          (part' = PartNumberDefault /\ completed' = <<>>)]_vars

BytesOf(id) ==
    LET RECURSIVE Sum(_)
        Sum(s) == IF s = <<>> THEN 0 ELSE Head(s).size + Sum(Tail(s))
    IN Sum(PartsOf(id))

\* C8: once the CompleteUpload of every earlier upload has succeeded and a new
\* upload is active, the Status returned by start_send counts the bytes of the
\* parts of the new upload only, and should_complete is computed from them.
C8_StatusCountsCurrentUpload ==
    [][(/\ state'.total_items > state.total_items
        /\ data'.some
        /\ \A id \in 1..(data'.id - 1) : [id |-> id, ok |-> TRUE] \in completeDone) =>
          /\ status'.bytes = BytesOf(data'.id)
          /\ status'.should_complete = (BytesOf(data'.id) >= max_bytes)]_vars

\* C9: an active upload is not terminated, and when poll_complete observes the
\* CompleteUpload resolve the writer is terminated iff the iterator is
\* exhausted.
C9_TerminatedIffNoNextUri ==
    [][/\ data'.some => ~Upload_is_terminated(St')
       /\ (cfut.some /\ ~cfut'.some) =>
             (Upload_is_terminated(St') <=> iter.next > iter.end)]_vars

\* C10: no URI gets more than one CreateUpload request, however often
\* poll_ready is polled.
C10_OneCreatePerObject ==
    \A i, j \in 1..Len(createReqs) : i # j => createReqs[i] # createReqs[j]

\* C10 witness: poll_ready was polled again while the CreateUpload of the
\* second object was pending.
C10_Witness ==
    /\ Len(createReqs) = 2
    /\ fut.some /\ fut.st = "inflight"
    /\ last.op = "poll_ready" /\ last.tag = "Pending"
    /\ completeReqs # <<>>

\* the futures of a pool, by serial number
PoolFids(p) == {p[i].fid : i \in 1..Len(p)}

\* C11: the call that takes a failed UploadPart future out of the pool returns
\* its error, and leaves no other future in the pool (the others are dropped,
\* so nothing can add their results to completed later).
C11_ErrorDropsInFlight ==
    [][(\E i \in 1..Len(pending) :
            pending[i].st = "err" /\ pending[i].fid \notin PoolFids(pending')) =>
          /\ last'.tag = "Err"
          /\ \E i \in 1..Len(pending) : pending[i].st = "err" /\ last'.err = pending[i].err
          /\ pending' = <<>>]_vars

\* a step in which a call took a failed UploadPart future out of the pool
FailedPartSurfaced ==
    \E i \in 1..Len(pending) :
        pending[i].st = "err" /\ pending[i].fid \notin PoolFids(pending')

\* C12: when a part fails after other parts succeeded, the FailedUpload of the
\* error returned has the CompletedParts accumulated so far (those the pool
\* and the upload layer hold for the upload).
C12_ErrorCarriesCompletedParts ==
    [][(FailedPartSurfaced /\ completed' \o bcompleted' # <<>>) =>
          /\ last'.tag = "Err"
          /\ failed_upload(last'.err).some
          /\ "parts" \in DOMAIN failed_upload(last'.err)
          /\ failed_upload(last'.err).parts =
                 CompletedPartsExtend(completed', bcompleted')]_vars

\* C13 as stated: every error an UploadPart request produces has the
\* FailedUpload of the request's UploadId, ObjectUri and PartNumber.
C13_PartErrorHasContext ==
    (sreq.op = "part" /\ sres.some /\ sres.err.some) =>
        failed_upload(sres.err) = FailedUploadNew(sreq.id, sreq.uri, sreq.part)

\* C13 amended: every error of an UploadPart request that passed local
\* validation (so was sent to the backend) has the FailedUpload of the
\* request's UploadId, ObjectUri and PartNumber.
C13_SentPartErrorHasContext ==
    (sreq.op = "part" /\ sres.some /\ sres.err.some /\ sres.sent) =>
        failed_upload(sres.err) = FailedUploadNew(sreq.id, sreq.uri, sreq.part)

\* C13 witness: an UploadPart request for part 2 was sent and failed.
C13_Witness ==
    /\ sreq.op = "part" /\ sreq.part = 2
    /\ sres.some /\ sres.sent /\ sres.err.some

\* C14: the UploadData goes away only in the step in which poll_complete sees
\* the CompleteUpload succeed; when poll_complete sees it fail, it returns the
\* error with the FailedUpload of the upload, keeps the UploadData and takes
\* no next URI.
C14_FailedCompleteKeepsUpload ==
    [][/\ (data.some /\ ~data'.some) => (cfut.some /\ cfut.st = "ok")
       /\ (cfut.some /\ cfut.st = "err" /\ ~cfut'.some) =>
             /\ last'.tag = "Err"
             /\ failed_upload(last'.err).some
             /\ failed_upload(last'.err).id = cfut.id
             /\ data' = data
             /\ next_uri' = 0 /\ iter' = iter]_vars

\* C15: the poll_ready that sees a CreateUpload fail returns its error, which
\* has no FailedUpload, installs no UploadData and dispatches nothing; and no
\* UploadPart request is ever dispatched for a URI whose CreateUpload failed.
C15_FailedCreateStep ==
    [][(fut.some /\ fut.st = "err" /\ ~fut'.some) =>
          /\ last'.tag = "Err" /\ last'.err = fut.err
          /\ ~failed_upload(last'.err).some
          /\ data' = data
          /\ sentParts' = sentParts]_vars

C15_NoPartForFailedCreate ==
    \A i \in 1..Len(sentParts) :
        [uri |-> sentParts[i].uri, ok |-> FALSE] \notin createDone

C15_FailedCreateSurfaces ==
    /\ []C15_NoPartForFailedCreate
    /\ C15_FailedCreateStep

\* C15 witness: the CreateUpload of the second object failed after the first
\* object completed with a part, and poll_ready returned the error.
C15_Witness ==
    /\ [uri |-> 2, ok |-> FALSE] \in createDone
    /\ \E d \in completeDone : d.ok
    /\ sentParts # <<>>
    /\ ~fut.some
    /\ last.op = "poll_ready" /\ last.tag = "Err" /\ last.err = SdkError

\* C16: the poll_complete that finds the iterator exhausted returns what the
\* CompleteUpload returned (exhaustion alone is no error), and a start_send on
\* a writer that has no upload, no CreateUpload pending and no next URI
\* returns the MissingNextURI error.
C16_MissingNextUri ==
    [][/\ (cfut.some /\ cfut.st = "ok" /\ ~cfut'.some) => last'.tag = "Ok"
       /\ (ready /\ last'.op = "start_send" /\ Upload_is_terminated(St)) =>
             /\ ~panicked'
             /\ last'.tag = "Err"
             /\ last'.err.kind = "missing_next_uri"]_vars

\* C17: has_active_upload() is true exactly when an upload is in progress;
\* start_new_upload returns UploadStillActive (and changes nothing) when an
\* upload is active, and otherwise sends the CreateUpload and, when that
\* succeeds, activates the upload with the new UploadData.
C17_StartNewUpload ==
    /\ [](has_active_upload(up) <=> up.upload.is_active)
    /\ [][Len(uhist.starts') > Len(uhist.starts) =>
             LET c == uhist.starts'[Len(uhist.starts')]
             IN /\ up.upload.is_active =>
                      (c.err = UploadStillActive /\ up' = up)
                /\ ~up.upload.is_active =>
                      /\ uhist.created' = Append(uhist.created, c.uri)
                      /\ c.err # UploadStillActive
                      /\ ~c.err.some =>
                            /\ up'.upload.is_active
                            /\ up'.upload.data.uri = c.uri]_vars

\* C18: in every execution, error paths and the drop of the writer included,
\* the writer issues no AbortUpload request.
C18_NoImplicitAbort == abortReqs = <<>>

\* the writer was dropped with an upload in progress, after a CreateUpload
\* had failed
C18_Witness ==
    /\ last.op = "drop"
    /\ data.some
    /\ sentParts # <<>>
    /\ \E d \in createDone : ~d.ok
    /\ abortReqs = <<>>

\* C19: nothing is retried: a start_send dispatches one UploadPart request and
\* nothing else dispatches any, no two UploadPart requests are for the same
\* part of the same upload, no upload gets two CompleteUpload requests and no
\* URI two CreateUpload requests.
C19_RequestsIssuedOnce ==
    /\ \A i, j \in 1..Len(sentParts) :
           (sentParts[i].id = sentParts[j].id
                /\ sentParts[i].part = sentParts[j].part) => i = j
    /\ \A i, j \in 1..Len(completeReqs) :
           completeReqs[i].id = completeReqs[j].id => i = j
    /\ \A i, j \in 1..Len(createReqs) : createReqs[i] = createReqs[j] => i = j

C19_OneRequestPerBody ==
    [][/\ Len(sentParts') <= Len(sentParts) + 1
       /\ Len(sentParts') > Len(sentParts) => last'.op = "start_send"
       /\ Len(createReqs') <= Len(createReqs) + 1
       /\ Len(completeReqs') <= Len(completeReqs) + 1]_vars

C19_NoRetry == []C19_RequestsIssuedOnce /\ C19_OneRequestPerBody

\* a CompleteUpload and a CreateUpload have failed, and the writer has since
\* returned the error of a failed UploadPart
C19_Witness ==
    /\ \E d \in completeDone : ~d.ok
    /\ \E d \in createDone : ~d.ok
    /\ last.tag = "Err"
    /\ failed_upload(last.err).some
    /\ Len(sentParts) >= 2

\* C20: every part dispatched that is followed by another part of the same
\* upload has at least AWS_MIN_PART_SIZE bytes.
C20_NonLastPartsMinSize ==
    \A i \in 1..Len(sentParts) :
        (\E j \in (i + 1)..Len(sentParts) : sentParts[j].id = sentParts[i].id)
            => sentParts[i].size >= AWS_MIN_PART_SIZE

\* C21 as stated: every part dispatched has at most max_part_bytes bytes.
C21_PartSizeAtMostTarget ==
    \A i \in 1..Len(sentParts) : sentParts[i].size <= max_part_bytes

\* the encoder holds the bytes state.part_bytes counts
C21_EncoderHoldsPartBytes == encoder.size = state.part_bytes

C21_PartSizeBelowTargetPlusItem ==
    \A i \in 1..Len(sentParts) : sentParts[i].size < max_part_bytes + MaxItemBytes

\* C21 amended: max_part_bytes is a threshold: an item is encoded only into a
\* part that holds fewer than max_part_bytes bytes, so that a part dispatched
\* exceeds max_part_bytes by less than the size of its last item.
C21_PartSizeThreshold ==
    /\ [](C21_EncoderHoldsPartBytes /\ C21_PartSizeBelowTargetPlusItem)
    /\ [][state'.total_items > state.total_items =>
             state.part_bytes < max_part_bytes]_vars

\* a part larger than max_part_bytes was dispatched
C21_Witness ==
    \E i \in 1..Len(sentParts) :
        sentParts[i].size = max_part_bytes + MaxItemBytes - 1

\* upload/state.rs: AWS_MAX_PART_COUNT (10,000), scaled like the byte sizes so
\* that one-byte parts reach it before the upload reaches max_bytes.
AWS_MAX_PART_COUNT == max_bytes - 1

\* C22: no part is dispatched with a PartNumber above AWS_MAX_PART_COUNT
\* unless the caller went on after a Status that asked to complete the upload
\* (the rollover is the caller's answer to should_complete).
C22_PartNumberWithinLimit ==
    [][\A i \in (Len(sentParts) + 1)..Len(sentParts') :
           sentParts'[i].part > AWS_MAX_PART_COUNT
               => (status.some /\ status.should_complete)]_vars

\* the items of the parts bs, concatenated in the order of bs
RECURSIVE ConcatBodies(_)
ConcatBodies(bs) ==
    IF bs = <<>> THEN <<>> ELSE bs[1].content \o ConcatBodies(Tail(bs))

\* the bytes of the items c
RECURSIVE ContentBytes(_)
ContentBytes(c) == IF c = <<>> THEN 0 ELSE c[1] + ContentBytes(Tail(c))

\* the bodies handed to the uploader are the parts dispatched, and within an
\* upload the order of dispatch is the order of the PartNumbers
C23_BodiesAreParts ==
    /\ Len(bodies) = Len(sentParts)
    /\ \A i \in 1..Len(sentParts) :
           /\ ContentBytes(bodies[i].content) = sentParts[i].size
           /\ \A j \in (i + 1)..Len(sentParts) :
                  sentParts[i].id = sentParts[j].id
                      => sentParts[i].part < sentParts[j].part

C24_HeaderOncePerObject ==
    /\ Len(bodies) = Len(sentParts)
    /\ \A i \in 1..Len(sentParts) :
           bodies[i].kind = "build"
               <=> ~\E j \in 1..(i - 1) : sentParts[j].id = sentParts[i].id

\* C25: as long as no item was sent to the encoded writer, no CreateUpload
\* request has been issued.
C25_NoItemNoCreate == items = <<>> => createReqs = <<>>

\* the writer has a URI to upload to and was flushed without any item sent
C25_Witness ==
    /\ items = <<>>
    /\ fut.some
    /\ last.op = "poll_flush" /\ last.tag = "Ok"

\* C26: the Status returned by start_send has should_upload iff part_bytes >=
\* max_part_bytes and should_complete iff bytes >= max_bytes, part_bytes being
\* the bytes in the encoder and bytes the bytes dispatched to the current
\* upload (every earlier upload having completed).
C26_StatusFlags ==
    [][state'.total_items > state.total_items =>
          /\ status'.some
          /\ status'.should_upload <=> (status'.part_bytes >= max_part_bytes)
          /\ status'.should_complete <=> (status'.bytes >= max_bytes)
          /\ status'.part_bytes = encoder'.size
          /\ (/\ data'.some
              /\ \A id \in 1..(data'.id - 1) :
                     [id |-> id, ok |-> TRUE] \in completeDone)
                 => status'.bytes = BytesOf(data'.id)]_vars

\* C27: part_size(x) sets max_part_bytes to x clamped into [AWS_MIN_PART_SIZE,
\* min(AWS_MAX_PART_SIZE, usize::MAX)]: raised to the minimum below it, lowered
\* to the upper end above it (AWS_MAX_PART_SIZE on a 64-bit target), and kept
\* in between.
C27_PartSizeClamped ==
    ub.called =>
        /\ AWS_MIN_PART_SIZE <= ub.max_part_bytes
        /\ ub.max_part_bytes <= OrdMin(AWS_MAX_PART_SIZE, usize_MAX(ub.bits))
        /\ ub.limit < AWS_MIN_PART_SIZE => ub.max_part_bytes = AWS_MIN_PART_SIZE
        /\ ub.limit > OrdMin(AWS_MAX_PART_SIZE, usize_MAX(ub.bits))
               => ub.max_part_bytes = OrdMin(AWS_MAX_PART_SIZE, usize_MAX(ub.bits))
        /\ (ub.bits = 64 /\ ub.limit > AWS_MAX_PART_SIZE)
               => ub.max_part_bytes = AWS_MAX_PART_SIZE
        /\ (/\ AWS_MIN_PART_SIZE <= ub.limit
            /\ ub.limit <= OrdMin(AWS_MAX_PART_SIZE, usize_MAX(ub.bits)))
               => ub.max_part_bytes = ub.limit

\* a limit above AWS_MAX_PART_SIZE was handed to part_size on a 64-bit target
C27_Witness ==
    /\ ub.called
    /\ ub.bits = 64
    /\ ub.limit > AWS_MAX_PART_SIZE
    /\ ub.max_part_bytes = AWS_MAX_PART_SIZE

\* C29: the value of a KeyPrefix made by KeyPrefix::new or KeyPrefix::append
\* ends in exactly one '/' and does not begin with '/'.
C29_KeyPrefixNormalized ==
    kp.op \in {"new", "append"} =>
        /\ kp.value # <<>>
        /\ kp.value[Len(kp.value)] = "/"
        /\ Len(kp.value) >= 2 => kp.value[Len(kp.value) - 1] # "/"
        /\ kp.value[1] # "/"

\* C28: a CreateRequest whose URI has an empty bucket or an empty key, and an
\* UploadPartRequest or CompleteRequest whose upload id is empty or whose URI
\* has an empty bucket or key, is answered with an error without the transport
\* being called; a request with all of these non-empty reaches the transport.
C28_RequestHasEmptyField ==
    \/ sreq.uri.bucket = 0
    \/ sreq.uri.key = 0
    \/ sreq.op \in {"part", "complete"} /\ sreq.id = 0

C28_ValidatedBeforeTransport ==
    sres.some =>
        IF C28_RequestHasEmptyField
        THEN ~sres.sent /\ sres.err = MissingError
        ELSE sres.sent

C28_Witness ==
    /\ sres.some /\ ~sres.sent
    /\ sreq.op = "create"
    /\ sreq.uri.bucket # 0 /\ sreq.uri.key = 0

\* C30: a writer built over a URI iterator that yields no URI is terminated
\* from construction on, whatever is called on it, and no CreateUpload request
\* is ever issued for it.
C30_EmptyIterTerminated ==
    iter.end = 0 =>
        /\ Upload_is_terminated(St)
        /\ createReqs = <<>>

C30_Witness ==
    /\ iter.end = 0
    /\ last.op = "poll_ready" /\ last.tag = "Ok"
    /\ Upload_is_terminated(St)

\* C31: every CompleteUpload request carries a CompletedPart for each part
\* dispatched for its upload, so none is issued for an upload one of whose
\* UploadPart requests failed.
C31_CompleteHasEveryPart ==
    \A r \in 1..Len(completeReqs) :
        \A k \in 1..Len(sentParts) :
            sentParts[k].id = completeReqs[r].id =>
                \E i \in 1..Len(completeReqs[r].parts) :
                    /\ completeReqs[r].parts[i].id = sentParts[k].id
                    /\ completeReqs[r].parts[i].part = sentParts[k].part

\* C32: after construction the URI iterator is advanced only by the
\* poll_complete that observes the CompleteUpload request resolve, and every
\* URI taken from it is held for, or has got, a CreateUpload request.
C32_UriHeldOrCreated ==
    \A u \in 1..(iter.next - 1) :
        \/ next_uri = u
        \/ fut.some /\ fut.uri = u
        \/ \E i \in 1..Len(createReqs) : createReqs[i] = u

C32_UriTakenOnCompleteOnly ==
    /\ []C32_UriHeldOrCreated
    /\ [][iter'.next # iter.next =>
              (cfut.some /\ cfut.st # "inflight" /\ ~cfut'.some)]_vars

\* C33: while an UploadPart request is in flight no CreateUpload and no
\* CompleteUpload request is in flight, and the part is a part of the upload
\* that is active.
C33_PartsPhaseSerialized ==
    \A i \in 1..Len(pending) :
        pending[i].st = "inflight" =>
            /\ ~(fut.some /\ fut.st = "inflight")
            /\ ~(cfut.some /\ cfut.st = "inflight")
            /\ data.some /\ pending[i].id = data.id

\* C34: with every request resolving successfully and the driver polling
\* again, a poll_flush that returned Pending is followed by a poll_flush that
\* returns Ready with an empty pool, and a poll_complete that returned Pending
\* by a poll_complete that returns the CompletedUpload, whatever max_tasks is.
C34_FlushAndCompleteReturn ==
    /\ Flushing ~> (last.op = "poll_flush" /\ last.tag = "Ok" /\ pending = <<>>)
    /\ completing ~> (last.op = "poll_complete" /\ last.tag = "Ok")

\* C34 witness: poll_flush returned Pending because the pool of max_tasks
\* futures was full and the part in progress could not be dispatched.
C34_Witness ==
    /\ Flushing
    /\ capacity >= 1 /\ Len(pending) = capacity
    /\ ~empty

\* the futures of pool p that have resolved, and their CompletedParts
C35_Resolved(p) == SelectSeq(p, LAMBDA f : f.st # "inflight")
C35_PartsOf(p) ==
    {CompletedPart(p[i].id, p[i].etag, p[i].part, p[i].size) : i \in 1..Len(p)}
C35_Elems(c) == {c[i] : i \in 1..Len(c)}

\* PartBuffer::poll_ready, called in state s, has moved every resolved future
\* into completed and answers by the room left in the pool
C35_Drained(s, r) ==
    /\ C35_Resolved(r.s.pending) = <<>>
    /\ r.s.pending = SelectSeq(s.pending, LAMBDA f : f.st = "inflight")
    /\ C35_Elems(r.s.bcompleted) =
           C35_Elems(s.bcompleted) \cup C35_PartsOf(C35_Resolved(s.pending))
    /\ r.ret.tag = IF s.capacity = 0 \/ Len(r.s.pending) < s.capacity
                   THEN "Ok" ELSE "Pending"

\* C35 as stated: in every state PartBuffer::poll_ready moves the result of
\* every resolved future into completed and then returns Ready iff the pool
\* is unbounded or holds fewer than max_tasks futures, else Pending.
C35_DrainsThenReadyIffRoom == C35_Drained(St, PartBuffer_poll_ready(St))

\* the first resolved future of the pool, in the order poll_next yields them
C35_FirstFailed(s) ==
    LET k == CHOOSE k \in 1..Len(s.readyq) :
                 /\ PendingOf(s, s.readyq[k]).st = "err"
                 /\ \A j \in 1..(k - 1) : PendingOf(s, s.readyq[j]).st = "ok"
    IN PendingOf(s, s.readyq[k])

C35_DrainedOrFailed(s, r) ==
    IF \A i \in 1..Len(s.pending) : s.pending[i].st # "err"
    THEN C35_Drained(s, r)
    ELSE /\ r.ret.tag = "Err"
         /\ r.ret.err = C35_FirstFailed(s).err
         /\ C35_FirstFailed(s) \notin C35_Elems(r.s.pending)

\* C35 amended: when no resolved future carries an error, poll_ready moves
\* the result of every resolved future into completed and returns Ready iff
\* the pool is unbounded or holds fewer than max_tasks futures, else Pending;
\* when one does, it returns the error of the first such future.
C35_DrainsOrReturnsError == C35_DrainedOrFailed(St, PartBuffer_poll_ready(St))

\* C35 witness: poll_ready has moved a resolved part into completed and
\* returned Ready with room for one more future in a pool of max_tasks.
C35_Witness ==
    /\ last.op = "poll_ready" /\ last.tag = "Ok"
    /\ bcompleted # <<>>
    /\ capacity >= 1 /\ Len(pending) = capacity - 1

\* the CompletedParts the upload layer has been handed and has put into
\* CompleteUpload requests, in order
RECURSIVE C36_RequestParts(_)
C36_RequestParts(reqs) ==
    IF reqs = <<>> THEN <<>>
    ELSE Head(reqs).parts \o C36_RequestParts(Tail(reqs))

C36_NoDuplicate(c) == \A i, j \in 1..Len(c) : i # j => c[i] # c[j]

\* PartBuffer::poll_complete, called in state s: when it returns Ready(Ok) it
\* returns what completed held and what the pool has resolved to, and leaves
\* completed empty; when it does not, it returns nothing and keeps completed
C36_Taken(s, r) ==
    IF r.ret.tag = "Ok"
    THEN /\ r.s.bcompleted = <<>>
         /\ r.s.pending = <<>>
         /\ C35_Elems(r.out) = C35_Elems(s.bcompleted) \cup C35_PartsOf(s.pending)
         /\ Len(r.out) = Len(s.bcompleted) + Len(s.pending)
    ELSE /\ r.out = <<>>
         /\ C35_Elems(s.bcompleted) \subseteq C35_Elems(r.s.bcompleted)

\* C36: PartBuffer::poll_complete returns all the CompletedParts accumulated
\* since the poll_complete before and leaves completed empty, and no
\* CompletedPart is handed to the upload layer twice.
C36_HandedExactlyOnce ==
    /\ C36_Taken(St, PartBuffer_poll_complete(St))
    /\ C36_NoDuplicate(bcompleted \o completed \o C36_RequestParts(completeReqs))

\* C36 witness: the upload layer has been handed parts by two calls of
\* PartBuffer::poll_complete, and the pool's completed is empty again.
C36_Witness ==
    /\ last.op = "poll_flush" /\ last.tag = "Ok"
    /\ Len(completed) = 2 /\ bcompleted = <<>>
    /\ completed[1].etag > completed[2].etag

\* C37: poll_flush and poll_complete, called on an encoded writer that is not
\* terminated, do not panic.
C37_NoPanicUnlessTerminated ==
    last.op \in {"poll_flush", "poll_complete"} => last.tag # "Panic"

\* the CompleteUpload requests issued for upload id
C38_CompleteReqsOf(reqs, id) == {r \in 1..Len(reqs) : reqs[r].id = id}

\* C38: while poll_complete is polled again after returning Pending, the
\* upload has at most one CompleteUpload request, exactly one once the request
\* is in flight and when poll_complete returns, and at most one part is
\* dispatched: the part in progress, after which there is none.
C38_OneCompletePerUpload ==
    completing =>
        /\ data.some => Cardinality(C38_CompleteReqsOf(completeReqs, data.id)) <= 1
        /\ cfut.some => Cardinality(C38_CompleteReqsOf(completeReqs, cfut.id)) = 1

C38_RepollIdempotent ==
    /\ []C38_OneCompletePerUpload
    /\ [][(completing /\ last'.op = "poll_complete") =>
              /\ Len(sentParts') <= Len(sentParts) + 1
              /\ Len(sentParts') > Len(sentParts) => (~empty /\ empty')
              /\ empty => empty'
              /\ Len(completeReqs') > Len(completeReqs) => ~cfut.some
              /\ last'.tag = "Ok" =>
                     Cardinality(C38_CompleteReqsOf(completeReqs', data.id)) = 1]_vars

\* C38 witness: poll_complete has returned Pending with the CompleteUpload
\* request in flight, after the item sent before the CreateUpload was driven
\* has been dispatched as the only part.
C38_Witness ==
    /\ completing /\ cfut.some /\ cfut.st = "inflight"
    /\ Len(items) = 1 /\ items[1] < max_part_bytes
    /\ Len(cfut.parts) = 1 /\ empty

\* C39: every part body handed to the upload layer holds at least one item,
\* and a part is dispatched only by a call that finds an item encoded since
\* the part before.
C39_BodiesHaveItems == \A i \in 1..Len(bodies) : bodies[i].content # <<>>

C40_ZeroIsNoLimit ==
    (capacity = PartBufferNew(0) /\ \A i \in 1..Len(pending) : pending[i].st # "err") =>
        PartBuffer_poll_ready(St).ret.tag = "Ok"

\* C40 witness: poll_ready of a writer built with max_active_tasks(0) has
\* returned Ready with two requests in flight in the pool.
C40_Witness ==
    /\ capacity = PartBufferNew(0)
    /\ last.op = "poll_ready" /\ last.tag = "Ok"
    /\ Len(pending) >= 2
    /\ \A i \in 1..Len(pending) : pending[i].st = "inflight"

====
